---- MODULE Spec2Model ----
(***************************************************************************)
(* A model of the smart-store warehouse loaders (etl_to_dw.py and          *)
(* datawarehouse/db01_setup.py) and of the cleaning pipelines              *)
(* (data_prep/prepare_*.py).                                               *)
(*                                                                         *)
(* The warehouse is an SQLite file reached through Python's sqlite3 module *)
(* with its default (legacy) transaction control: a DELETE or INSERT opens *)
(* a transaction implicitly, a DROP or CREATE TABLE outside a transaction  *)
(* is persisted at once, and closing a connection discards what is         *)
(* pending.  pandas' DataFrame.to_sql on an sqlite3 connection commits     *)
(* when its insert succeeds and rolls back when it fails.                  *)
(*                                                                         *)
(* The two loaders use disjoint table names, so each loader's tables       *)
(* evolve independently of the other loader's runs; a behaviour follows    *)
(* the tables of one loader, chosen in Init.                               *)
(***************************************************************************)
EXTENDS Integers, Sequences, FiniteSets, TLC

\* ---------------------------------------------------------------- bounds
\* A prepared file holds at most MaxRows rows.
MaxRows == 2
\* A raw file holds at most MaxLen rows.
MaxLen == 3
\* A row-set handed to outlier rejection holds at most MaxFrame rows.
MaxFrame == 5
\* A customer row-set handed to outlier rejection holds at most MaxPoints rows.
MaxPoints == 6

\* A missing value of a nullable column (keys are 1 or more).
NULL == 0
\* A row-set variable before its file is read.
UNREAD == <<>>

VARIABLES
  loader,        \* "etl" (etl_to_dw.py) or "db01" (db01_setup.py)
  pc,            \* position in prog: 0 when no call is active
  prog,          \* the statements of the active call
  disk,          \* the persisted warehouse: table |-> [exists, rows]
  view,          \* the warehouse as the open connection sees it
  intxn,         \* the connection has an open transaction
  customers_df,  \* the prepared row-sets read by the active run
  products_df,
  sales_df,
  prior,         \* the persisted warehouse when the last run started
  outcome,       \* "none", "running", "committed", "failed", "cleared"
  log,           \* the tables whose insert completed in this run, in order
  entity,        \* the cleaning pipeline that runs: "customers", "products", "sales"
  step,          \* the last stage main completed
  raw,           \* the rows read_raw_data returned
  deduped,       \* the rows remove_duplicates returned
  df,            \* main's df: [isNone, rows]
  removed,       \* the removed-row count remove_duplicates reported (-1: none)
  source,        \* the raw file: [error, rows]
  applied,       \* the stages main has called, in order
  prepared,      \* the prepared file: [written, rows]
  fn,            \* the function a direct call applies
  arg,           \* its argument
  ret,           \* its result
  called         \* the direct call has returned

loadVars == <<loader, pc, prog, disk, view, intxn, customers_df, products_df,
              sales_df, prior, outcome, log>>

mainVars == <<entity, step, raw, deduped, df, removed, source, applied, prepared>>

callVars == <<fn, arg, ret, called>>

prepVars == <<mainVars, callVars>>

vars == <<loadVars, prepVars>>

\* ------------------------------------------------------------ the schemas
Range(s) == {s[i] : i \in 1..Len(s)}

Dimensions == {"customer", "product", "store", "date"}
AllTables == Dimensions \cup {"fact"}

\* The tables each fact foreign key column references (etl_to_dw.py 139-142).
References == [CustomerID |-> "customer", ProductID |-> "product",
               StoreID |-> "store", DateID |-> "date"]

\* The tables each loader's create_schema declares, in creation order.
create_schema_etl == <<"customer", "product", "store", "date", "fact">>

create_schema_db01 == <<"customer", "product", "fact">>

create_schema(l) == IF l = "etl" THEN create_schema_etl ELSE create_schema_db01

\* A reset that drops the dimensions before the fact table.
reset_schema_dimensions_first == <<"customer", "product", "store", "date", "fact">>

\* reset_schema's DROP TABLE IF EXISTS statements, in order.
reset_schema == <<"fact", "date", "store", "product", "customer">>

\* delete_existing_records' DELETE FROM statements, in order.
delete_existing_records_etl == <<"fact", "customer", "product", "store", "date">>

\* A clear that forgets the sale table.
delete_existing_records_db01_keeps_sale == <<"customer", "product">>

delete_existing_records_db01 == <<"customer", "product", "fact">>

delete_existing_records(l) ==
  IF l = "etl" THEN delete_existing_records_etl ELSE delete_existing_records_db01

\* The three read_csv calls and the three insert calls of load_data_to_db.
ReadOrder == <<"customer", "product", "fact">>

\* A load that inserts the sales before the dimensions.
InsertOrder_sales_first == <<"fact", "customer", "product">>

InsertOrder == <<"customer", "product", "fact">>

\* No statement of either loader runs PRAGMA foreign_keys = ON, so SQLite keeps
\* its default and does not check the declared foreign keys.
ForeignKeysEnforced == FALSE

Stmts(op, ts) == [i \in 1..Len(ts) |-> [op |-> op, t |-> ts[i]]]

\* load_data_to_db, statement by statement.
load_data_to_db(l) ==
  (IF l = "etl"
     THEN Stmts("drop", reset_schema) \o Stmts("create", create_schema(l))
     ELSE Stmts("create", create_schema(l)) \o Stmts("delete", delete_existing_records(l)))
  \o Stmts("read", ReadOrder) \o Stmts("insert", InsertOrder)
  \o <<[op |-> "commit", t |-> "-"]>>

\* delete_existing_records called on its own by a caller that then commits or
\* closes (etl_to_dw.py defines it; its load_data_to_db does not call it).
ClearCall(l) == Stmts("delete", delete_existing_records(l)) \o <<[op |-> "end", t |-> "-"]>>

\* ------------------------------------------------------------ the row-sets
\* The key values the prepared files draw from.  One customer and one product
\* key give a fact row that references a loaded row and one that does not
\* (when the dimension file is empty); two TransactionIDs give batches with
\* and without a repeated primary key.
CustomerIDs == {1}
ProductIDs == {1}
TransactionIDs == {1, 2}
\* dim_store and dim_date are never loaded: every non-null StoreID or DateID
\* behaves alike, so one non-null value stands for them.
OptionalKey(l) == IF l = "etl" THEN {NULL, 1} ELSE {NULL}

FactRow(l) == [TransactionID : TransactionIDs, CustomerID : CustomerIDs,
               ProductID : ProductIDs,
               StoreID : OptionalKey(l), DateID : OptionalKey(l)]

SeqsUpTo(S, n) == UNION {[1..k -> S] : k \in 0..n}

RowSets(l, t) ==
  CASE t = "fact" -> SeqsUpTo(FactRow(l), MaxRows)
    [] t = "customer" -> SeqsUpTo(CustomerIDs, MaxRows)
    [] OTHER -> SeqsUpTo(ProductIDs, MaxRows)

PrimaryKey(t, r) == IF t = "fact" THEN r.TransactionID ELSE r

EmptyTable == [exists |-> TRUE, rows |-> {}]
NoTable == [exists |-> FALSE, rows |-> {}]

\* A foreign key value is dangling when it is non-null and no row of the
\* referenced table has it as primary key.
Dangling(db, r) ==
  \E c \in DOMAIN References : r[c] # NULL /\ r[c] \notin db[References[c]].rows

Df(t) == CASE t = "customer" -> customers_df
           [] t = "product" -> products_df
           [] OTHER -> sales_df

\* SQLite accepts a bulk insert when the table exists, the batch's primary keys
\* are distinct and new to the table, and (when enforced) no foreign key dangles.
SinkAccepts(db, t, rows) ==
  /\ db[t].exists
  /\ \A i, j \in 1..Len(rows) : PrimaryKey(t, rows[i]) = PrimaryKey(t, rows[j]) => i = j
  /\ \A i \in 1..Len(rows) : \A r \in db[t].rows : PrimaryKey(t, r) # PrimaryKey(t, rows[i])
  /\ (ForeignKeysEnforced /\ t = "fact") =>
       \A i \in 1..Len(rows) : ~Dangling(db, rows[i])

\* --------------------------------------------------------------- actions
Init ==
  /\ loader \in {"etl", "db01"}
  /\ pc = 0
  /\ prog = <<>>
  /\ disk = [t \in AllTables |-> NoTable]
  /\ view = [t \in AllTables |-> NoTable]
  /\ intxn = FALSE
  /\ customers_df = UNREAD
  /\ products_df = UNREAD
  /\ sales_df = UNREAD
  /\ prior = [t \in AllTables |-> NoTable]
  /\ outcome = "none"
  /\ log = <<>>
  /\ entity = "none"
  /\ step = "none"
  /\ raw = <<>>
  /\ deduped = <<>>
  /\ df = [isNone |-> FALSE, rows |-> <<>>]
  /\ removed = -1
  /\ source = [error |-> "none", rows |-> <<>>]
  /\ applied = <<>>
  /\ prepared = [written |-> FALSE, rows |-> <<>>]
  /\ fn = "none"
  /\ arg = <<>>
  /\ ret = <<>>
  /\ called = FALSE

Active == pc \in 1..Len(prog)
stmt == prog[pc]

\* sqlite3.connect and conn.cursor(): a run of load_data_to_db starts.
Connect ==
  /\ pc = 0
  /\ pc' = 1
  /\ prog' = load_data_to_db(loader)
  /\ view' = disk
  /\ intxn' = FALSE
  /\ customers_df' = UNREAD /\ products_df' = UNREAD /\ sales_df' = UNREAD
  /\ prior' = disk
  /\ outcome' = "running"
  /\ log' = <<>>
  /\ UNCHANGED <<loader, disk>>
  /\ UNCHANGED prepVars

\* A caller opens a connection to call delete_existing_records.
ConnectToClear ==
  /\ pc = 0
  /\ loader = "etl"
  /\ \A t \in Range(delete_existing_records(loader)) : disk[t].exists
  /\ pc' = 1
  /\ prog' = ClearCall(loader)
  /\ view' = disk
  /\ intxn' = FALSE
  /\ customers_df' = UNREAD /\ products_df' = UNREAD /\ sales_df' = UNREAD
  /\ prior' = disk
  /\ outcome' = "running"
  /\ log' = <<>>
  /\ UNCHANGED <<loader, disk>>
  /\ UNCHANGED prepVars

\* A DDL statement outside a transaction is persisted as it executes; inside
\* one it stays pending with the rest.
Ddl(newview) ==
  /\ view' = newview
  /\ disk' = IF intxn THEN disk ELSE newview
  /\ pc' = pc + 1
  /\ UNCHANGED <<loader, prog, intxn, customers_df, products_df, sales_df, prior,
                 outcome, log>>
  /\ UNCHANGED prepVars

\* cursor.execute("DROP TABLE IF EXISTS t")
DropTable ==
  /\ Active /\ stmt.op = "drop"
  /\ Ddl([view EXCEPT ![stmt.t] = NoTable])

\* cursor.execute("CREATE TABLE IF NOT EXISTS t (...)")
CreateTable ==
  /\ Active /\ stmt.op = "create"
  /\ Ddl(IF view[stmt.t].exists THEN view ELSE [view EXCEPT ![stmt.t] = EmptyTable])

\* cursor.execute("DELETE FROM t"): opens a transaction, nothing is persisted.
DeleteFrom ==
  /\ Active /\ stmt.op = "delete"
  /\ view[stmt.t].exists
  /\ view' = [view EXCEPT ![stmt.t].rows = {}]
  /\ intxn' = TRUE
  /\ pc' = pc + 1
  /\ UNCHANGED <<loader, prog, disk, customers_df, products_df, sales_df, prior,
                 outcome, log>>
  /\ UNCHANGED prepVars

\* An exception leaves load_data_to_db through finally: conn.close() discards
\* the open transaction and the error reaches the caller.
Abort ==
  /\ view' = disk'
  /\ intxn' = FALSE
  /\ pc' = 0
  /\ outcome' = "failed"
  /\ UNCHANGED <<loader, prog, customers_df, products_df, sales_df, prior, log>>
  /\ UNCHANGED prepVars

\* pd.read_csv of one prepared file.
ReadCsv ==
  /\ Active /\ stmt.op = "read"
  /\ \E rows \in RowSets(loader, stmt.t) :
       /\ customers_df' = IF stmt.t = "customer" THEN rows ELSE customers_df
       /\ products_df' = IF stmt.t = "product" THEN rows ELSE products_df
       /\ sales_df' = IF stmt.t = "fact" THEN rows ELSE sales_df
  /\ pc' = pc + 1
  /\ UNCHANGED <<loader, prog, disk, view, intxn, prior, outcome, log>>
  /\ UNCHANGED prepVars

\* pd.read_csv raises (the prepared file is missing or unreadable).
ReadCsvFails ==
  /\ Active /\ stmt.op = "read"
  /\ disk' = disk
  /\ Abort

\* df.to_sql(t, conn, if_exists="append"): the rows are inserted and pandas
\* commits the connection's transaction.
InsertRows ==
  /\ Active /\ stmt.op = "insert"
  /\ SinkAccepts(view, stmt.t, Df(stmt.t))
  /\ view' = [view EXCEPT ![stmt.t].rows = @ \cup Range(Df(stmt.t))]
  /\ disk' = view'
  /\ intxn' = FALSE
  /\ log' = Append(log, stmt.t)
  /\ pc' = pc + 1
  /\ UNCHANGED <<loader, prog, customers_df, products_df, sales_df, prior, outcome>>
  /\ UNCHANGED prepVars

\* df.to_sql raises: SQLite rejects the batch (a constraint, a column the table
\* lacks, a locked or full file); pandas rolls the transaction back and re-raises.
InsertRejected ==
  /\ Active /\ stmt.op = "insert"
  /\ disk' = disk
  /\ Abort

\* conn.commit(), then finally: conn.close().
Commit ==
  /\ Active /\ stmt.op = "commit"
  /\ disk' = view
  /\ view' = view
  /\ intxn' = FALSE
  /\ pc' = 0
  /\ outcome' = "committed"
  /\ UNCHANGED <<loader, prog, customers_df, products_df, sales_df, prior, log>>
  /\ UNCHANGED prepVars

\* The caller of delete_existing_records commits, or closes without committing.
ClearEnds ==
  /\ Active /\ stmt.op = "end"
  /\ \E commit \in BOOLEAN :
       /\ disk' = IF commit THEN view ELSE disk
       /\ view' = disk'
  /\ intxn' = FALSE
  /\ pc' = 0
  /\ outcome' = "cleared"
  /\ UNCHANGED <<loader, prog, customers_df, products_df, sales_df, prior, log>>
  /\ UNCHANGED prepVars

Next ==
  \/ Connect
  \/ ConnectToClear
  \/ DropTable
  \/ CreateTable
  \/ DeleteFrom
  \/ ReadCsv
  \/ ReadCsvFails
  \/ InsertRows
  \/ InsertRejected
  \/ Commit
  \/ ClearEnds

Spec == Init /\ [][Next]_vars

\* ------------------------------------------------- the cleaning pipelines
\* A cell is <<kind, value>>.  Numbers are held in thousandths (1000 stands
\* for 1.0, 1500 for 1.5, 1005 for 1.005), so that the mean of two whole
\* numbers and a rounding to two decimals are exact.
Unit == 1000
NA == <<"na", 0>>
\* Text that is not a number ("abc").
Bad == <<"bad", 0>>
\* The number v.
Num(v) == <<"num", Unit * v>>
\* The number v written with a currency sign ("$v").
Cur(v) == <<"cur", Unit * v>>

IsNA(c) == c[1] = "na"

\* Display text with a decimal point: <<"text", neg, whole, digits>> is the
\* text of whole.digits, behind a minus sign when neg = 1.
Text(neg, whole, digits) == <<"text", neg, whole, digits>>

\* The thousandths that the digits after a decimal point stand for.
DigitsValue(ds) ==
  (IF Len(ds) >= 1 THEN 100 * ds[1] ELSE 0) + (IF Len(ds) >= 2 THEN 10 * ds[2] ELSE 0)
    + (IF Len(ds) >= 3 THEN ds[3] ELSE 0)

\* A coercion that takes every text, display text included, for no number.
to_numeric_numbers_only(c) == IF c[1] = "num" THEN c ELSE NA

\* pd.to_numeric(column, errors="coerce"): a number stays, text that reads as
\* a number becomes that number, what is not a number becomes NaN.
to_numeric(c) ==
  CASE c[1] = "num" -> c
    [] c[1] = "text" -> <<"num", (1 - 2 * c[2]) * (Unit * c[3] + DigitsValue(c[4]))>>
    [] OTHER -> NA

\* column.astype(str).str.replace(r"[\$,]", "", regex=True).str.strip()
strip_currency(c) == IF c[1] = "cur" THEN <<"num", c[2]>> ELSE c

\* The raw rows of each entity.  Product rows come with or without ProductID.
IDs == {1, 2}
NumberCells == {NA, Bad, Num(1), Num(2)}
AmountCells == {NA, Bad, Cur(1), Num(2)}
QuantityCells == {NA, Num(1), Num(2)}

RawRowSets(e) ==
  CASE e = "customers" -> SeqsUpTo([CustomerID : IDs, MemberPoints : NumberCells], MaxLen)
    [] e = "products" -> SeqsUpTo([ProductID : IDs, UnitPrice : NumberCells], MaxLen)
                         \cup SeqsUpTo([Category : IDs, UnitPrice : NumberCells], MaxLen)
    [] OTHER -> SeqsUpTo([TransactionID : IDs, SaleAmount : AmountCells,
                          Quantity : QuantityCells], MaxLen)

\* df.columns
Columns(rows) == IF rows = <<>> THEN {} ELSE DOMAIN rows[1]

DataFrame(rows) == [isNone |-> FALSE, rows |-> rows]
None == [isNone |-> TRUE, rows |-> <<>>]

\* The rows whose mask entry is TRUE, in order.
RECURSIVE Filter(_, _, _)
Filter(rows, mask, i) ==
  IF i > Len(rows) THEN <<>>
  ELSE (IF mask[i] THEN <<rows[i]>> ELSE <<>>) \o Filter(rows, mask, i + 1)

SameOn(r1, r2, subset) == \A c \in subset : r1[c] = r2[c]

\* DataFrame.drop_duplicates(subset, keep="first"): a row is dropped when an
\* earlier row agrees with it on the subset columns.
drop_duplicates(rows, subset) ==
  Filter(rows,
         [i \in 1..Len(rows) |-> ~ \E j \in 1..(i - 1) : SameOn(rows[j], rows[i], subset)],
         1)

\* drop_duplicates(subset, keep="last").
drop_duplicates_keep_last(rows, subset) ==
  Filter(rows,
         [i \in 1..Len(rows) |->
            ~ \E j \in (i + 1)..Len(rows) : SameOn(rows[j], rows[i], subset)],
         1)

\* A product de-duplication that keeps the last row of each ProductID.
remove_duplicates_products_keep_last(rows) ==
  IF "ProductID" \in Columns(rows)
    THEN LET out == drop_duplicates_keep_last(rows, {"ProductID"})
         IN [out |-> out, removed |-> Len(rows) - Len(out)]
    ELSE [out |-> drop_duplicates_keep_last(rows, Columns(rows)), removed |-> -1]

\* prepare_products.remove_duplicates: its result and the count it reports.
remove_duplicates_products(rows) ==
  IF "ProductID" \in Columns(rows)
    THEN LET out == drop_duplicates(rows, {"ProductID"})
         IN [out |-> out, removed |-> Len(rows) - Len(out)]
    ELSE [out |-> drop_duplicates(rows, Columns(rows)), removed |-> -1]

\* prepare_customers.remove_duplicates as main finds it bound: the module
\* defines the name twice and the later definition, df.drop_duplicates(), wins.
remove_duplicates_customers(rows) ==
  [out |-> drop_duplicates(rows, Columns(rows)), removed |-> -1]

\* prepare_sales.remove_duplicates: df.drop_duplicates().
remove_duplicates_sales(rows) ==
  [out |-> drop_duplicates(rows, Columns(rows)), removed |-> -1]

remove_duplicates(e, rows) ==
  CASE e = "customers" -> remove_duplicates_customers(rows)
    [] e = "products" -> remove_duplicates_products(rows)
    [] OTHER -> remove_duplicates_sales(rows)

MapCol(rows, col, F(_)) == [i \in 1..Len(rows) |-> [rows[i] EXCEPT ![col] = F(@)]]

RECURSIVE Insert(_, _)
Insert(x, s) ==
  IF s = <<>> THEN <<x>>
  ELSE IF x <= Head(s) THEN <<x>> \o s ELSE <<Head(s)>> \o Insert(x, Tail(s))

RECURSIVE Sort(_)
Sort(s) == IF s = <<>> THEN <<>> ELSE Insert(Head(s), Sort(Tail(s)))

\* The numbers of a column, NaN skipped.
RECURSIVE Values(_, _, _)
Values(rows, col, i) ==
  IF i > Len(rows) THEN <<>>
  ELSE (IF IsNA(rows[i][col]) THEN <<>> ELSE <<rows[i][col][2]>>) \o Values(rows, col, i + 1)

\* Series.median(): the middle value, or the mean of the two middle values.
median(vals) ==
  LET s == Sort(vals)
      n == Len(s)
  IN IF n % 2 = 1 THEN s[(n + 1) \div 2] ELSE (s[n \div 2] + s[n \div 2 + 1]) \div 2

\* if column.notna().any(): column = column.fillna(column.median())
fillna_median(rows, col) ==
  LET vals == Values(rows, col, 1)
  IN IF vals = <<>> THEN rows
     ELSE LET m == <<"num", median(vals)>>
              Fill(c) == IF IsNA(c) THEN m ELSE c
          IN MapCol(rows, col, Fill)

\* column.astype("Int64") raises TypeError on a number that is not whole.
Int64Raises(rows, col) == \E i \in 1..Len(rows) : ~IsNA(rows[i][col]) /\ rows[i][col][2] % Unit # 0

\* prepare_products.handle_missing_values (the UnitPrice rule).
handle_missing_values_products(rows) ==
  [df |-> DataFrame(IF "UnitPrice" \in Columns(rows)
                      THEN fillna_median(MapCol(rows, "UnitPrice", to_numeric), "UnitPrice")
                      ELSE rows),
   raised |-> FALSE]

\* prepare_sales.handle_missing_values (the SaleAmount and Quantity rules).
handle_missing_values_sales(rows) ==
  LET Amount(c) == to_numeric(strip_currency(c))
      r1 == IF "SaleAmount" \in Columns(rows)
              THEN fillna_median(MapCol(rows, "SaleAmount", Amount), "SaleAmount")
              ELSE rows
      r2 == IF "Quantity" \in Columns(rows)
              THEN fillna_median(MapCol(r1, "Quantity", to_numeric), "Quantity")
              ELSE r1
  IN [df |-> DataFrame(r2),
      raised |-> "Quantity" \in Columns(rows) /\ Int64Raises(r2, "Quantity")]

\* prepare_customers.handle_missing_values as main finds it bound: the later of
\* the module's two definitions, whose body logs and returns nothing.
handle_missing_values_customers(rows) == [df |-> None, raised |-> FALSE]

handle_missing_values(e, rows) ==
  CASE e = "customers" -> handle_missing_values_customers(rows)
    [] e = "products" -> handle_missing_values_products(rows)
    [] OTHER -> handle_missing_values_sales(rows)

\* Series.round(2): to the nearest hundredth, a tie going to the even
\* hundredth (the binary value of a decimal tie may tip it either way; both
\* ways give a whole number of hundredths).
round2(n) ==
  LET q == n \div 10
      r == n % 10
  IN IF r < 5 THEN 10 * q
     ELSE IF r > 5 THEN 10 * (q + 1)
     ELSE IF q % 2 = 0 THEN 10 * q ELSE 10 * (q + 1)

Round2(c) == IF IsNA(c) THEN c ELSE <<"num", round2(c[2])>>

\* "{:.2f}".format(x) for a number of thousandths.
format_2f(n) ==
  LET c == round2(n) \div 10
      a == IF c < 0 THEN -c ELSE c
  IN Text(IF c < 0 THEN 1 ELSE 0, a \div 100, <<(a \div 10) % 10, a % 10>>)

\* prepare_products.standardize_formats (the UnitPrice rule).
standardize_formats_products(rows) ==
  [df |-> DataFrame(IF "UnitPrice" \in Columns(rows)
                      THEN MapCol(rows, "UnitPrice", to_numeric)
                      ELSE rows),
   raised |-> FALSE]

\* The monetary and percentage columns of the sales pipeline.
MoneyColumns == <<"SaleAmount", "PercentDiscount", "SaleFinal">>

\* for col in cols: if col in df.columns: df[col] = F(df[col])
MapCols(rows, cols, F(_)) ==
  [i \in 1..Len(rows) |->
     [c \in DOMAIN rows[i] |-> IF c \in Range(cols) THEN F(rows[i][c]) ELSE rows[i][c]]]

\* prepare_sales.standardize_formats (the monetary and the Quantity rules).
standardize_formats_sales(rows) ==
  LET Money(c) == Round2(to_numeric(strip_currency(c)))
      r1 == MapCols(rows, MoneyColumns, Money)
      r2 == MapCols(r1, <<"Quantity">>, to_numeric)
  IN [df |-> DataFrame(r2),
      raised |-> "Quantity" \in Columns(rows) /\ Int64Raises(r2, "Quantity")]

\* prepare_customers.standardize_formats: the Name clean-up, which leaves the
\* other columns alone.
standardize_formats_customers(rows) == [df |-> DataFrame(rows), raised |-> FALSE]

standardize_formats(e, rows) ==
  CASE e = "customers" -> standardize_formats_customers(rows)
    [] e = "products" -> standardize_formats_products(rows)
    [] OTHER -> standardize_formats_sales(rows)

\* prepare_customers.remove_outliers as main finds it bound: the module defines
\* the name twice and the later definition returns df with no row removed.
remove_outliers_customers(rows) == DataFrame(rows)

\* Four times Series.quantile(k / 4) of the sorted numbers s (pandas
\* interpolates linearly between the two nearest ranks).
quantile(s, k) ==
  LET pos == (Len(s) - 1) * k
      lo == pos \div 4
      f == pos % 4
  IN IF f = 0 THEN 4 * s[lo + 1] ELSE (4 - f) * s[lo + 1] + f * s[lo + 2]

\* A pass over column col that filters also when the IQR is zero.
iqr_column_no_skip(rows, col) ==
  LET coerced == MapCol(rows, col, to_numeric)
      vals == Sort(Values(coerced, col, 1))
      q1 == quantile(vals, 1)
      q3 == quantile(vals, 3)
      lb == 2 * q1 - 3 * (q3 - q1)
      ub == 2 * q3 + 3 * (q3 - q1)
      Within(c) == ~IsNA(c) /\ 8 * c[2] >= lb /\ 8 * c[2] <= ub
  IN IF vals = <<>> THEN coerced
     ELSE Filter(coerced, [i \in 1..Len(coerced) |-> Within(coerced[i][col])], 1)

\* One pass of the loop of remove_outliers over column col: the column is
\* coerced, and unless the IQR is NaN or zero the rows within
\* [q1 - 1.5 * iqr, q3 + 1.5 * iqr] are kept (a comparison with NaN is false).
\* Every quantity is held multiplied by 8.
iqr_column(rows, col) ==
  LET coerced == MapCol(rows, col, to_numeric)
      vals == Sort(Values(coerced, col, 1))
      q1 == quantile(vals, 1)
      q3 == quantile(vals, 3)
      iqr == q3 - q1
      lb == 2 * q1 - 3 * iqr
      ub == 2 * q3 + 3 * iqr
      Within(c) == ~IsNA(c) /\ 8 * c[2] >= lb /\ 8 * c[2] <= ub
  IN IF vals = <<>> \/ iqr = 0 THEN coerced
     ELSE Filter(coerced, [i \in 1..Len(coerced) |-> Within(coerced[i][col])], 1)

\* for col in candidates: if col in df.columns: one pass over col
RECURSIVE remove_outliers_iqr(_, _)
remove_outliers_iqr(rows, candidates) ==
  IF candidates = <<>> THEN rows
  ELSE remove_outliers_iqr(IF Head(candidates) \in Columns(rows)
                             THEN iqr_column(rows, Head(candidates))
                             ELSE rows,
                           Tail(candidates))

\* The candidate columns of prepare_products.remove_outliers.
ProductCandidates == <<"Price", "UnitPrice", "Weight", "Length", "Width", "Height">>
\* The candidate columns of prepare_sales.remove_outliers.
SalesCandidates == <<"SaleAmount", "Quantity">>

\* An outlier rejection that computes every column's bounds on the rows it
\* was handed, not on the survivors of the columns before.
remove_outliers_products_unnarrowed(rows) ==
  LET coerced == MapCols(rows, ProductCandidates, to_numeric)
      Kept(i) ==
        \A k \in 1..Len(ProductCandidates) :
          LET col == ProductCandidates[k]
              vals == Sort(Values(coerced, col, 1))
              q1 == quantile(vals, 1)
              q3 == quantile(vals, 3)
              c == coerced[i][col]
          IN (col \in Columns(rows) /\ vals # <<>> /\ q3 # q1) =>
               /\ ~IsNA(c)
               /\ 8 * c[2] >= 2 * q1 - 3 * (q3 - q1)
               /\ 8 * c[2] <= 2 * q3 + 3 * (q3 - q1)
  IN DataFrame(Filter(coerced, [i \in 1..Len(rows) |-> Kept(i)], 1))

remove_outliers_products(rows) == DataFrame(remove_outliers_iqr(rows, ProductCandidates))

remove_outliers_sales(rows) == DataFrame(remove_outliers_iqr(rows, SalesCandidates))

remove_outliers(e, rows) ==
  CASE e = "customers" -> remove_outliers_customers(rows)
    [] e = "products" -> remove_outliers_products(rows)
    [] OTHER -> remove_outliers_sales(rows)

\* A test that lets every number through.
NonNegative_any_number(c) == ~IsNA(c)

\* df[df[col] >= 0]: a comparison with NaN is false.
NonNegative(c) == ~IsNA(c) /\ c[2] >= 0

\* One pass of the loop of prepare_products.validate_data.
validate_column_products(rows, col) ==
  LET coerced == MapCol(rows, col, to_numeric)
  IN Filter(coerced, [i \in 1..Len(coerced) |-> NonNegative(coerced[i][col])], 1)

\* One pass of the loop of prepare_sales.validate_data: rows are dropped only
\* when the column holds a negative value.
validate_column_sales(rows, col) ==
  LET coerced == MapCol(rows, col, to_numeric)
      neg == \E i \in 1..Len(coerced) : ~IsNA(coerced[i][col]) /\ coerced[i][col][2] < 0
  IN IF neg
       THEN Filter(coerced, [i \in 1..Len(coerced) |-> NonNegative(coerced[i][col])], 1)
       ELSE coerced

RECURSIVE validate_columns(_, _, _)
validate_columns(e, rows, cols) ==
  IF cols = <<>> THEN rows
  ELSE validate_columns(e,
                        IF Head(cols) \in Columns(rows)
                          THEN IF e = "products"
                                 THEN validate_column_products(rows, Head(cols))
                                 ELSE validate_column_sales(rows, Head(cols))
                          ELSE rows,
                        Tail(cols))

\* The columns prepare_products.validate_data checks, in its order.
ProductNonNegative == <<"UnitPrice", "Price">>
\* The columns prepare_sales.validate_data checks, in its order.
SalesNonNegative == <<"SaleAmount", "Quantity">>

validate_data_products(rows) == DataFrame(validate_columns("products", rows, ProductNonNegative))

validate_data_sales(rows) == DataFrame(validate_columns("sales", rows, SalesNonNegative))

validate_data(e, rows) ==
  IF e = "products" THEN validate_data_products(rows) ELSE validate_data_sales(rows)

\* pd.to_numeric(column, errors="coerce").fillna(0).round(2).map("{:.2f}".format)
present(c) ==
  LET n == to_numeric(c)
  IN format_2f(IF IsNA(n) THEN 0 ELSE n[2])

\* prepare_products.finalize_presentation
finalize_presentation_products(rows) == DataFrame(MapCols(rows, <<"UnitPrice">>, present))

\* prepare_sales.finalize_presentation
finalize_presentation_sales(rows) == DataFrame(MapCols(rows, MoneyColumns, present))

finalize_presentation(e, rows) ==
  IF e = "products" THEN finalize_presentation_products(rows)
  ELSE finalize_presentation_sales(rows)

\* read_raw_data: the rows of the file, and an empty DataFrame when reading
\* fails (the file is missing, or pd.read_csv raises).
read_raw_data(src) == IF src.error # "none" THEN <<>> ELSE src.rows

\* The raw file of an entity: missing, unreadable, or holding rows.
RawFiles(e) ==
  {[error |-> x, rows |-> <<>>] : x \in {"FileNotFoundError", "Exception"}}
    \cup {[error |-> "none", rows |-> r] : r \in RawRowSets(e)}

\* The calls main makes on df, in order.
main(e) ==
  IF e = "customers"
    THEN <<"remove_duplicates", "handle_missing_values", "standardize_formats",
           "remove_outliers", "save_prepared_data">>
    ELSE <<"remove_duplicates", "handle_missing_values", "standardize_formats",
           "remove_outliers", "validate_data", "finalize_presentation",
           "save_prepared_data">>

NoCall ==
  /\ fn = "none"
  /\ arg = <<>>
  /\ ret = <<>>
  /\ called = FALSE

\* main: df = read_raw_data(input_file)
PrepInit ==
  /\ loader = "etl"
  /\ pc = 0
  /\ prog = <<>>
  /\ disk = [t \in AllTables |-> NoTable]
  /\ view = [t \in AllTables |-> NoTable]
  /\ intxn = FALSE
  /\ customers_df = UNREAD
  /\ products_df = UNREAD
  /\ sales_df = UNREAD
  /\ prior = [t \in AllTables |-> NoTable]
  /\ outcome = "none"
  /\ log = <<>>
  /\ entity \in {"customers", "products", "sales"}
  /\ source \in RawFiles(entity)
  /\ raw = read_raw_data(source)
  /\ step = "read"
  /\ deduped = <<>>
  /\ df = DataFrame(raw)
  /\ removed = -1
  /\ applied = <<>>
  /\ prepared = [written |-> FALSE, rows |-> <<>>]
  /\ NoCall

\* main without its "if df.empty: return": an empty frame goes on to the stages.
Next_call_without_empty_check(stage) ==
  /\ step \notin {"none", "returned", "raised", "saved"}
  /\ Len(applied) < Len(main(entity))
  /\ main(entity)[Len(applied) + 1] = stage

\* main is between two of its calls, and the next one is stage.
Next_call(stage) ==
  /\ step \notin {"none", "returned", "raised", "saved"}
  /\ step = "read" => df.rows # <<>>
  /\ Len(applied) < Len(main(entity))
  /\ main(entity)[Len(applied) + 1] = stage

\* main: if df.empty: return
MainReturnsOnEmpty ==
  /\ step = "read"
  /\ df.rows = <<>>
  /\ step' = "returned"
  /\ UNCHANGED <<entity, raw, deduped, df, removed, source, applied, prepared>>
  /\ UNCHANGED callVars
  /\ UNCHANGED loadVars

\* main: df = remove_duplicates(df)
RemoveDuplicates ==
  /\ Next_call("remove_duplicates")
  /\ LET r == remove_duplicates(entity, df.rows)
     IN /\ df' = DataFrame(r.out)
        /\ deduped' = r.out
        /\ removed' = r.removed
  /\ step' = "deduped"
  /\ applied' = Append(applied, "remove_duplicates")
  /\ UNCHANGED <<entity, raw, source, prepared>>
  /\ UNCHANGED callVars
  /\ UNCHANGED loadVars

\* main: df = handle_missing_values(df); an exception ends main.
HandleMissingValues ==
  /\ Next_call("handle_missing_values")
  /\ LET r == handle_missing_values(entity, df.rows)
     IN /\ df' = r.df
        /\ step' = IF r.raised THEN "raised" ELSE "imputed"
  /\ applied' = Append(applied, "handle_missing_values")
  /\ UNCHANGED <<entity, raw, deduped, removed, source, prepared>>
  /\ UNCHANGED callVars
  /\ UNCHANGED loadVars

\* main: df = standardize_formats(df); df.columns raises AttributeError when
\* df is None.
StandardizeFormats ==
  /\ Next_call("standardize_formats")
  /\ IF df.isNone
       THEN df' = df /\ step' = "raised"
       ELSE LET r == standardize_formats(entity, df.rows)
            IN /\ df' = r.df
               /\ step' = IF r.raised THEN "raised" ELSE "standardized"
  /\ applied' = Append(applied, "standardize_formats")
  /\ UNCHANGED <<entity, raw, deduped, removed, source, prepared>>
  /\ UNCHANGED callVars
  /\ UNCHANGED loadVars

\* main: df = remove_outliers(df)
RemoveOutliers ==
  /\ Next_call("remove_outliers")
  /\ df' = remove_outliers(entity, df.rows)
  /\ step' = "outliers_removed"
  /\ applied' = Append(applied, "remove_outliers")
  /\ UNCHANGED <<entity, raw, deduped, removed, source, prepared>>
  /\ UNCHANGED callVars
  /\ UNCHANGED loadVars

\* main: df = validate_data(df)
ValidateData ==
  /\ Next_call("validate_data")
  /\ df' = validate_data(entity, df.rows)
  /\ step' = "validated"
  /\ applied' = Append(applied, "validate_data")
  /\ UNCHANGED <<entity, raw, deduped, removed, source, prepared>>
  /\ UNCHANGED callVars
  /\ UNCHANGED loadVars

\* main: df = finalize_presentation(df)
FinalizePresentation ==
  /\ Next_call("finalize_presentation")
  /\ df' = finalize_presentation(entity, df.rows)
  /\ step' = "finalized"
  /\ applied' = Append(applied, "finalize_presentation")
  /\ UNCHANGED <<entity, raw, deduped, removed, source, prepared>>
  /\ UNCHANGED callVars
  /\ UNCHANGED loadVars

\* main: save_prepared_data(df, output_file)
SavePreparedData ==
  /\ Next_call("save_prepared_data")
  /\ prepared' = [written |-> TRUE, rows |-> df.rows]
  /\ step' = "saved"
  /\ applied' = Append(applied, "save_prepared_data")
  /\ UNCHANGED <<entity, raw, deduped, df, removed, source>>
  /\ UNCHANGED callVars
  /\ UNCHANGED loadVars

PrepNext ==
  \/ MainReturnsOnEmpty
  \/ RemoveDuplicates
  \/ HandleMissingValues
  \/ StandardizeFormats
  \/ RemoveOutliers
  \/ ValidateData
  \/ FinalizePresentation
  \/ SavePreparedData

PrepSpec == PrepInit /\ [][PrepNext]_vars

\* ------------------------------------------------------- text columns
\* A text cell is <<"str", chars>>, chars being the sequence of its
\* characters; a missing value (NaN, pd.NA) is NA.  A column name is the
\* sequence of its characters.
Str(chars) == <<"str", chars>>
IsStr(c) == c[1] = "str"

\* The characters \s matches and str.strip() removes.
Whitespace == {" ", "\t"}

\* The tab and the printable ASCII characters (the grave accent left out), in
\* code-point order: the order Python compares and sorts text by.
CodePoints ==
  <<
    "\t", " ", "!", "\"", "#", "$", "%", "&", "'", "(", ")", "*",
    "+", ",", "-", ".", "/", "0", "1", "2", "3", "4", "5", "6",
    "7", "8", "9", ":", ";", "<", "=", ">", "?", "@", "A", "B",
    "C", "D", "E", "F", "G", "H", "I", "J", "K", "L", "M", "N",
    "O", "P", "Q", "R", "S", "T", "U", "V", "W", "X", "Y", "Z",
    "[", "\\", "]", "^", "_", "a", "b", "c", "d", "e", "f",
    "g", "h", "i", "j", "k", "l", "m", "n", "o", "p", "q", "r",
    "s", "t", "u", "v", "w", "x", "y", "z", "{", "|", "}", "~"
  >>
ord(ch) == CHOOSE i \in 1..Len(CodePoints) : CodePoints[i] = ch

\* a < b for two texts.
RECURSIVE StrLess(_, _)
StrLess(a, b) ==
  IF a = <<>> THEN b # <<>>
  ELSE IF b = <<>> THEN FALSE
  ELSE IF a[1] # b[1] THEN ord(a[1]) < ord(b[1])
  ELSE StrLess(Tail(a), Tail(b))

RECURSIVE lstrip(_)
lstrip(s) == IF s # <<>> /\ s[1] \in Whitespace THEN lstrip(Tail(s)) ELSE s

Reverse(s) == [i \in 1..Len(s) |-> s[Len(s) + 1 - i]]

\* str.strip()
strip(s) == Reverse(lstrip(Reverse(lstrip(s))))

\* The regular expression ^\s*$ matches s.
IsBlank(s) == \A i \in 1..Len(s) : s[i] \in Whitespace

Uppercase ==
  <<"A", "B", "C", "D", "E", "F", "G", "H", "I", "J", "K", "L", "M", "N", "O", "P", "Q", "R", "S", "T", "U", "V", "W", "X", "Y", "Z">>
Lowercase ==
  <<"a", "b", "c", "d", "e", "f", "g", "h", "i", "j", "k", "l", "m", "n", "o", "p", "q", "r", "s", "t", "u", "v", "w", "x", "y", "z">>

\* str.lower()
lower(s) ==
  [i \in 1..Len(s) |->
     IF \E k \in 1..Len(Uppercase) : Uppercase[k] = s[i]
       THEN Lowercase[CHOOSE k \in 1..Len(Uppercase) : Uppercase[k] = s[i]]
       ELSE s[i]]

\* What column.astype(str) makes of a missing value depends on the pandas that
\* is installed, and the repository pins none: the text "nan" (object columns,
\* pandas before 3.0) or the missing value itself (string columns, pandas 3).
AstypeStr == {"nan_text", "keeps_missing"}

\* column.astype(str)
astype_str(c, how) ==
  IF IsStr(c) THEN c
  ELSE IF how = "nan_text" THEN Str(<<"n", "a", "n">>) ELSE NA

\* The text cells of a column that are not missing, in order.
RECURSIVE Strings(_, _, _)
Strings(rows, col, i) ==
  IF i > Len(rows) THEN <<>>
  ELSE (IF IsStr(rows[i][col]) THEN <<rows[i][col][2]>> ELSE <<>>) \o Strings(rows, col, i + 1)

Count(x, s) == Cardinality({i \in 1..Len(s) : s[i] = x})

\* Series.mode(dropna=True).iat[0] of a column that holds a value: the most
\* frequent values come sorted, and the first of them is taken.
mode_iat0(vals) ==
  LET top == {v \in Range(vals) : \A w \in Range(vals) : Count(w, vals) <= Count(v, vals)}
  IN CHOOSE v \in top : \A w \in top : w = v \/ StrLess(v, w)

\* column.fillna(column.mode().iat[0]) when the mode is not empty
fillna_mode(rows, col) ==
  LET vals == Strings(rows, col, 1)
  IN IF vals = <<>> THEN rows
     ELSE LET m == Str(mode_iat0(vals))
              Fill(c) == IF IsNA(c) THEN m ELSE c
          IN MapCol(rows, col, Fill)

Preferred_Contact == <<"P", "r", "e", "f", "e", "r", "r", "e", "d", "_", "C", "o", "n", "t", "a", "c", "t">>
Preferred_Contact_spaced == <<"P", "r", "e", "f", "e", "r", "r", "e", "d", " ", "C", "o", "n", "t", "a", "c", "t">>
MemberStatus == <<"M", "e", "m", "b", "e", "r", "S", "t", "a", "t", "u", "s">>
NotFound == <<>>

\* handle_missing_values: col_pc, the column the preferred-contact rule fills.
\* NotFound stands for None.
col_pc(columns) ==
  IF Preferred_Contact \in Range(columns) THEN Preferred_Contact
  ELSE IF Preferred_Contact_spaced \in Range(columns) THEN Preferred_Contact_spaced
  ELSE NotFound

\* handle_missing_values, the preferred-contact rule:
\* astype(str), replace(r"^\s*$", pd.NA, regex=True), fillna(mode(dropna=True).iat[0])
fill_preferred_contact(rows, col, how) ==
  LET AsText(c) == astype_str(c, how)
      BlankToNA(c) == IF IsStr(c) /\ IsBlank(c[2]) THEN NA ELSE c
  IN fillna_mode(MapCol(MapCol(rows, col, AsText), col, BlankToNA), col)

\* prepare_customers.handle_missing_values, the first of the module's two
\* definitions (lines 148-179), called on a frame of text columns: the
\* MemberStatus rule and the preferred-contact rule.
handle_missing_values_customers_first(columns, rows, how) ==
  LET r1 == IF MemberStatus \in Range(columns) THEN fillna_mode(rows, MemberStatus) ELSE rows
  IN DataFrame(IF col_pc(columns) # NotFound
                 THEN fill_preferred_contact(r1, col_pc(columns), how)
                 ELSE r1)

\* prepare_sales.handle_missing_values, the PaidWithPoints rule:
\* astype(str).str.strip().replace({"": "No"}).fillna("No")
fill_paid_with_points(c, how) ==
  LET s == astype_str(c, how)
      t == IF IsStr(s) THEN Str(strip(s[2])) ELSE s
      r == IF IsStr(t) /\ t[2] = <<>> THEN Str(<<"N", "o">>) ELSE t
  IN IF IsNA(r) THEN Str(<<"N", "o">>) ELSE r

\* prepare_sales.handle_missing_values on a frame that holds PaidWithPoints
\* (no frame here holds Quantity, so nothing is cast to Int64).
handle_missing_values_sales_text(rows, how) ==
  LET Paid(c) == fill_paid_with_points(c, how)
      r1 == handle_missing_values_sales(rows).df.rows
  IN DataFrame(IF "PaidWithPoints" \in Columns(rows) THEN MapCol(r1, "PaidWithPoints", Paid)
               ELSE r1)

\* ------------------------------------------- the stages, called directly
\* The row-sets a stage of an entity's pipeline is called with: [e, rows].
Frames(e, rowsets) == {[e |-> e, rows |-> r] : r \in rowsets}

OutlierFrames ==
  Frames("customers",
         SeqsUpTo([CustomerID : {1}, MemberPoints : {NA, Num(0), Num(1)}], MaxPoints))
    \cup Frames("products",
                SeqsUpTo([UnitPrice : {Num(8), Num(9), Num(10), Num(11), Num(1000)}],
                         MaxFrame))
    \cup Frames("products",
                SeqsUpTo([Price : {Num(0), Num(1), Num(9)},
                          UnitPrice : {Num(0), Num(9)}], MaxFrame))
    \cup Frames("products", SeqsUpTo([Price : {NA, Bad, Num(0), Num(9)}], MaxFrame))
    \cup Frames("sales",
                SeqsUpTo([SaleAmount : {Num(0), Num(1), Num(9)},
                          Quantity : {Num(0), Num(9)}], MaxFrame))

ValidateFrames ==
  Frames("products",
         SeqsUpTo([UnitPrice : {NA, Bad, Num(-1), Num(0)},
                   Price : {NA, Num(-1), Num(1)}], MaxLen))
    \cup Frames("products", SeqsUpTo([UnitPrice : {NA, Bad, Num(-1), Num(0)}], MaxLen))
    \cup Frames("sales",
                SeqsUpTo([SaleAmount : {NA, Cur(1), Num(-1), Num(1)},
                          Quantity : {NA, Num(-1), Num(1)}], MaxLen))

\* Numbers with up to three decimals, missing values, text that is no number
\* and text that finalize_presentation has already produced.
MoneyCells ==
  {NA, Bad, Num(0), Num(2), <<"num", 1005>>, <<"num", 1015>>, <<"num", 2500>>,
   <<"num", -1234>>, <<"num", 12346>>, Text(0, 1, <<5, 0>>)}

PresentFrames ==
  Frames("products", SeqsUpTo([ProductID : {1}, UnitPrice : MoneyCells], MaxLen))
    \cup Frames("sales",
                SeqsUpTo([SaleAmount : {NA, <<"num", 1005>>},
                          PercentDiscount : {<<"num", -1234>>, <<"num", 125>>},
                          SaleFinal : {Bad, <<"num", 995>>}], MaxLen))

\* ------------------------------------------------- name standardizer
\* _PREFIXES and _SUFFIXES, matched with re.IGNORECASE.
PREFIXES == {<<"m", "r">>, <<"m", "r", "s">>, <<"m", "s">>, <<"m", "i", "s", "s">>, <<"d", "r">>, <<"p", "r", "o", "f">>}
SUFFIXES ==
  {<<"j", "r">>, <<"s", "r">>, <<"i", "i">>, <<"i", "i", "i">>, <<"i", "v">>, <<"m", "d">>, <<"d", "d", "s">>, <<"p", "h", "d">>, <<"d", "m", "d">>, <<"e", "s", "q">>, <<"e", "s", "q", "u", "i", "r", "e">>}

\* s begins with word, whatever the case of its letters.
StartsWith(s, word) == Len(s) >= Len(word) /\ lower(SubSeq(s, 1, Len(word))) = word
EndsWith(s, word) ==
  Len(s) >= Len(word) /\ lower(SubSeq(s, Len(s) - Len(word) + 1, Len(s))) = word

\* _prefix_pat.sub("", s): ^(mr|mrs|ms|miss|dr|prof)\.?\s+ is cut off.
prefix_sub(s) ==
  LET End(word) == IF Len(s) > Len(word) /\ s[Len(word) + 1] = "." THEN Len(word) + 1
                   ELSE Len(word)
      Matches(word) ==
        StartsWith(s, word) /\ Len(s) > End(word) /\ s[End(word) + 1] \in Whitespace
  IN IF \E word \in PREFIXES : Matches(word)
       THEN LET word == CHOOSE w \in PREFIXES : Matches(w)
            IN lstrip(SubSeq(s, End(word) + 1, Len(s)))
       ELSE s

\* t is made of whitespace with at most one comma in it: \s*,?\s*
IsSeparator(t) ==
  /\ \A i \in 1..Len(t) : t[i] \in Whitespace \cup {","}
  /\ Cardinality({i \in 1..Len(t) : t[i] = ","}) <= 1

\* The whole of t matches \s*,?\s*(jr|sr|ii|iii|iv|md|dds|phd|dmd|esq|esquire)\.?
IsSuffix(t) ==
  LET Core(u) ==
        \E word \in SUFFIXES :
          EndsWith(u, word) /\ IsSeparator(SubSeq(u, 1, Len(u) - Len(word)))
  IN Core(t) \/ (t # <<>> /\ t[Len(t)] = "." /\ Core(SubSeq(t, 1, Len(t) - 1)))

\* _suffix_pat.sub("", s): the leftmost match that reaches the end is cut off.
suffix_sub(s) ==
  LET starts == {k \in 1..Len(s) : IsSuffix(SubSeq(s, k, Len(s)))}
  IN IF starts = {} THEN s
     ELSE SubSeq(s, 1, (CHOOSE k \in starts : \A j \in starts : k <= j) - 1)

\* _clean_name: the loop that strips the prefixes.
RECURSIVE strip_prefixes(_)
strip_prefixes(s) ==
  LET new == prefix_sub(s) IN IF new = s THEN s ELSE strip_prefixes(strip(new))

\* _clean_name: the loop that strips the suffixes.
RECURSIVE strip_suffixes(_)
strip_suffixes(s) ==
  LET new == suffix_sub(s) IN IF new = s THEN s ELSE strip_suffixes(strip(new))

\* re.sub(r"\s+", " ", s)
RECURSIVE collapse(_)
collapse(s) ==
  IF s = <<>> THEN <<>>
  ELSE IF s[1] \in Whitespace THEN <<" ">> \o collapse(lstrip(s))
  ELSE <<s[1]>> \o collapse(Tail(s))

\* _clean_name(name) for a name that is text.
clean_name(name) == strip(collapse(strip_suffixes(strip_prefixes(strip(name)))))

\* Names: an opening, a body and an ending.
NameOpenings == {<<>>, <<"D", "r", ".", " ">>, <<"m", "r", " ", " ">>, <<"D", "r", ".", " ", "P", "r", "o", "f", ".", " ">>, <<" ">>}
NameBodies ==
  {<<"L", "i", "v">>, <<"T", "o", "r", "i", "i">>, <<"A", "n", "n", " ", " ", "L", "e", "e">>, <<"B", "o", "b">>, <<"D", "r", "e", "w", " ", "L", "e", "e">>, <<"M", "i", "s", "s", "y">>}
NameEndings == {<<>>, <<" ", "J", "r", ".">>, <<",", " ", "P", "h", "D">>, <<" ", "M", "D", ",", " ", "P", "h", "D">>, <<" ">>}
Names == {a \o b \o c : a \in NameOpenings, b \in NameBodies, c \in NameEndings}

\* Values of a preferred-contact column: missing, empty, a blank, two
\* channels, and texts that stand for "no value".
ContactCells ==
  {NA, Str(<<>>), Str(<<" ">>), Str(<<"E", "m", "a", "i", "l">>), Str(<<"P", "h", "o", "n", "e">>),
   Str(<<"n", "o", "n", "e">>), Str(<<"N", "/", "A">>), Str(<<"n", "a", "n">>)}

FewContactCells == {NA, Str(<<"E", "m", "a", "i", "l">>)}
StatusCells == {NA, Str(<<"G", "o", "l", "d">>), Str(<<"S", "i", "l", "v", "e", "r">>)}

\* Headers a customer file may carry for the preferred-contact column.
preferred_contact == <<"p", "r", "e", "f", "e", "r", "r", "e", "d", "_", "c", "o", "n", "t", "a", "c", "t">>
PreferredContactMethod == <<"P", "r", "e", "f", "e", "r", "r", "e", "d", "C", "o", "n", "t", "a", "c", "t", "M", "e", "t", "h", "o", "d">>
Contact == <<"C", "o", "n", "t", "a", "c", "t">>

\* Frames of text columns, each with the astype(str) of the installed pandas.
TextFrames(e, columns, cells, n) ==
  {[e |-> e, columns |-> columns, rows |-> r, astype |-> h] :
     r \in SeqsUpTo([Range(columns) -> cells], n), h \in AstypeStr}

PaidCells ==
  {NA, Str(<<>>), Str(<<" ">>), Str(<<"Y", "e", "s">>), Str(<<" ", "Y", "e", "s", " ">>), Str(<<"N", "o">>)}

ImputeFrames ==
  TextFrames("customers", <<Preferred_Contact>>, ContactCells, MaxLen)
    \cup TextFrames("customers", <<Preferred_Contact_spaced>>, FewContactCells, MaxRows)
    \cup TextFrames("customers", <<Preferred_Contact_spaced, Preferred_Contact>>,
                    FewContactCells, MaxRows)
    \cup TextFrames("customers", <<preferred_contact>>, FewContactCells, MaxRows)
    \cup TextFrames("customers", <<MemberStatus, PreferredContactMethod>>,
                    FewContactCells, MaxRows)
    \cup TextFrames("customers", <<Contact>>, FewContactCells, MaxRows)
    \cup TextFrames("customers", <<MemberStatus>>, StatusCells, MaxLen)
    \cup {[e |-> "sales", rows |-> r, astype |-> h] :
            r \in SeqsUpTo([PaidWithPoints : PaidCells], MaxLen), h \in AstypeStr}
    \cup {[e |-> "sales", rows |-> r, astype |-> h] :
            r \in SeqsUpTo([SaleAmount : {NA, Cur(1), Num(2)},
                            PaidWithPoints : {NA, Str(<<"Y", "e", "s">>)}], MaxRows),
            h \in AstypeStr}

Arguments(f) ==
  CASE f = "remove_outliers" -> OutlierFrames
    [] f = "validate_data" -> ValidateFrames
    [] f = "finalize_presentation" -> PresentFrames
    [] f = "handle_missing_values" -> ImputeFrames
    [] f = "_clean_name" -> {[e |-> "customers", name |-> n] : n \in Names}

Functions ==
  {"remove_outliers", "validate_data", "finalize_presentation", "handle_missing_values",
   "_clean_name"}

\* No loader and no main runs: one stage is about to be called with arg.
CallInit ==
  /\ loader = "etl"
  /\ pc = 0
  /\ prog = <<>>
  /\ disk = [t \in AllTables |-> NoTable]
  /\ view = [t \in AllTables |-> NoTable]
  /\ intxn = FALSE
  /\ customers_df = UNREAD
  /\ products_df = UNREAD
  /\ sales_df = UNREAD
  /\ prior = [t \in AllTables |-> NoTable]
  /\ outcome = "none"
  /\ log = <<>>
  /\ entity = "none"
  /\ step = "none"
  /\ raw = <<>>
  /\ deduped = <<>>
  /\ df = [isNone |-> FALSE, rows |-> <<>>]
  /\ removed = -1
  /\ source = [error |-> "none", rows |-> <<>>]
  /\ applied = <<>>
  /\ prepared = [written |-> FALSE, rows |-> <<>>]
  /\ fn \in Functions
  /\ arg \in Arguments(fn)
  /\ ret = <<>>
  /\ called = FALSE

Returns(f, result) ==
  /\ fn = f
  /\ ~called
  /\ ret' = result
  /\ called' = TRUE
  /\ UNCHANGED <<fn, arg>>
  /\ UNCHANGED mainVars
  /\ UNCHANGED loadVars

\* remove_outliers(df)
CallRemoveOutliers == Returns("remove_outliers", remove_outliers(arg.e, arg.rows))

\* validate_data(df)
CallValidateData == Returns("validate_data", validate_data(arg.e, arg.rows))

\* finalize_presentation(df)
CallFinalizePresentation ==
  Returns("finalize_presentation", finalize_presentation(arg.e, arg.rows))

\* handle_missing_values(df)
CallHandleMissingValues ==
  Returns("handle_missing_values",
          IF arg.e = "customers"
            THEN handle_missing_values_customers_first(arg.columns, arg.rows, arg.astype)
            ELSE handle_missing_values_sales_text(arg.rows, arg.astype))

\* _clean_name(name)
CallCleanName == Returns("_clean_name", clean_name(arg.name))

CallNext ==
  \/ CallRemoveOutliers
  \/ CallValidateData
  \/ CallFinalizePresentation
  \/ CallHandleMissingValues
  \/ CallCleanName

CallSpec == CallInit /\ [][CallNext]_vars

\* ------------------------------------------------------ the loader's claims
IsPrefix(s, t) == Len(s) <= Len(t) /\ \A i \in 1..Len(s) : s[i] = t[i]

\* The clearing statements (drop, create, delete) of the active run are done.
Loading == Active /\ stmt.op \in {"read", "insert", "commit"}

\* C1: in every run of load_data_to_db, of either loader, the inserts complete
\* in the order customer, product, sales: the fact table receives rows only
\* once the customer and the product insert have both completed.
C1_FactInsertedAfterDimensions ==
  /\ IsPrefix(log, <<"customer", "product", "fact">>)
  /\ (Loading /\ view["fact"].rows # {}) =>
       ("customer" \in Range(log) /\ "product" \in Range(log))

C1_Witness ==
  /\ outcome = "committed"
  /\ log = <<"customer", "product", "fact">>
  /\ disk["customer"].rows # {} /\ disk["fact"].rows # {}

\* C2: a run of load_data_to_db that fails leaves the warehouse holding the
\* rows it held when the run started.
C2_FailedRunLeavesPriorState ==
  outcome = "failed" => \A t \in AllTables : disk[t].rows = prior[t].rows

\* C3: a sales row-set with a CustomerID that no loaded customer row has is
\* rejected by the sink and never committed: no run of the star-schema loader
\* on such a row-set ends committed, and no persisted fact row carries a
\* CustomerID that the customer table lacks.
C3_UnknownCustomerRejected ==
  loader = "etl" =>
    /\ outcome = "committed" =>
         \A i \in 1..Len(sales_df) : sales_df[i].CustomerID \in Range(customers_df)
    /\ \A r \in disk["fact"].rows : r.CustomerID \in disk["customer"].rows

\* Every sale row of the run's inputs names a customer and a product that the
\* run's customer and product inputs hold.
SalesReferToLoadedRows ==
  \A i \in 1..Len(sales_df) :
    /\ sales_df[i].CustomerID \in Range(customers_df)
    /\ sales_df[i].ProductID \in Range(products_df)

\* The row counts after a committed run are those of its inputs.
LoadedCounts ==
  /\ Cardinality(disk["customer"].rows) = Len(customers_df)
  /\ Cardinality(disk["product"].rows) = Len(products_df)
  /\ Cardinality(disk["fact"].rows) = Len(sales_df)

\* C4: after a reset and a committed load of N customer, M product and K sale
\* rows whose CustomerID and ProductID all occur in the loaded rows, the three
\* tables hold N, M and K rows and no fact row has a non-null foreign key
\* (CustomerID, ProductID, StoreID, DateID) that its dimension table lacks.
C4_ResetThenLoadIsConsistent ==
  (loader = "etl" /\ outcome = "committed" /\ SalesReferToLoadedRows) =>
    /\ LoadedCounts
    /\ \A r \in disk["fact"].rows : ~Dangling(disk, r)

\* The warehouse that holds exactly the rows of the run's prepared inputs.
WarehouseOf(l) ==
  [t \in AllTables |->
     IF t \notin Range(create_schema(l)) THEN NoTable
     ELSE [exists |-> TRUE,
           rows |-> CASE t = "customer" -> Range(customers_df)
                      [] t = "product" -> Range(products_df)
                      [] t = "fact" -> Range(sales_df)
                      [] OTHER -> {}]]

\* C5: whatever the warehouse held before, a committed run of load_data_to_db
\* leaves it holding exactly the rows of the run's prepared inputs (so a second
\* committed run on the same inputs changes nothing, and rows never accumulate).
C5_CommittedRunReplacesContents ==
  outcome = "committed" => disk = WarehouseOf(loader)

C5_Witness ==
  /\ outcome = "committed"
  /\ prior["fact"].rows # {} /\ disk["fact"].rows # {}
  /\ prior["fact"].rows # disk["fact"].rows
  /\ prior["customer"].rows # disk["customer"].rows

FactReferencesExist(db) ==
  db["fact"].exists => \A c \in DOMAIN References : db[References[c]].exists

\* C6: during a reset (reset_schema, then create_schema) the fact table never
\* exists while a dimension table it references is missing, and when
\* create_schema returns every declared table exists and is empty.
C6_FactDroppedFirstCreatedLast ==
  loader = "etl" =>
    /\ FactReferencesExist(disk) /\ FactReferencesExist(view)
    /\ (Active /\ pc > 1 /\ prog[pc - 1].op = "create" /\ stmt.op # "create") =>
         \A t \in AllTables : disk[t] = EmptyTable

C6_Witness ==
  /\ loader = "etl" /\ Active /\ stmt.op = "drop"
  /\ ~disk["fact"].exists
  /\ disk["customer"].rows # {} /\ prior["fact"].rows # {}

\* C7: while delete_existing_records runs (in either loader), no dimension
\* table that held rows has been emptied while the fact table still holds rows.
C7_ClearDeletesFactFirst ==
  (Active /\ stmt.op = "delete") =>
    \A i \in 1..(pc - 1) :
      (prog[i].op = "delete" /\ prog[i].t \in Dimensions /\ prior[prog[i].t].rows # {})
        => view["fact"].rows = {}

\* ---------------------------------------------------- the pipelines' claims
\* The rows of `rows` at the indices in `kept`, in order.
Subsequence(rows, kept) ==
  [i \in 1..Cardinality(kept) |->
     rows[CHOOSE k \in kept : Cardinality({x \in kept : x <= k}) = i]]

\* The index of the first row of `rows` whose column col holds k.
FirstIndex(rows, col, k) ==
  CHOOSE j \in 1..Len(rows) : rows[j][col] = k /\ \A i \in 1..(j - 1) : rows[i][col] # k

\* C8: on a product row-set with a ProductID column, remove_duplicates leaves at
\* most one row per ProductID, each kept row is the first row of its ProductID
\* in the input, the kept rows keep their input order and the reported removed
\* count is the input's row count minus the output's; without a ProductID
\* column it removes exactly the rows equal to an earlier row.
C8_ProductDedupKeepsFirst ==
  (entity = "products" /\ step = "deduped") =>
    IF "ProductID" \in Columns(raw)
      THEN /\ \A i, j \in 1..Len(deduped) :
                i < j => deduped[i].ProductID # deduped[j].ProductID
           /\ \A i \in 1..Len(deduped) :
                /\ \E j \in 1..Len(raw) : raw[j].ProductID = deduped[i].ProductID
                /\ deduped[i] = raw[FirstIndex(raw, "ProductID", deduped[i].ProductID)]
           /\ \A i, j \in 1..Len(deduped) :
                i < j => FirstIndex(raw, "ProductID", deduped[i].ProductID)
                           < FirstIndex(raw, "ProductID", deduped[j].ProductID)
           /\ \A j \in 1..Len(raw) : \E i \in 1..Len(deduped) :
                deduped[i].ProductID = raw[j].ProductID
           /\ removed = Len(raw) - Len(deduped)
      ELSE deduped = Subsequence(raw, {i \in 1..Len(raw) :
                                         \A j \in 1..(i - 1) : raw[j] # raw[i]})

C8_Witness ==
  /\ entity = "products" /\ step = "deduped"
  /\ "ProductID" \in Columns(raw)
  /\ Len(raw) = 3 /\ Len(deduped) = 2 /\ removed = 1
  /\ raw[1].ProductID = raw[3].ProductID /\ raw[1].UnitPrice # raw[3].UnitPrice

NaturalKey(e) == IF e = "customers" THEN "CustomerID" ELSE "TransactionID"

\* C9: in the customer and the sales pipeline, when the natural key column
\* exists, no two rows share a natural key after remove_duplicates.
C9_NoRepeatedNaturalKey ==
  (entity \in {"customers", "sales"} /\ step = "deduped"
     /\ NaturalKey(entity) \in Columns(raw)) =>
    \A i, j \in 1..Len(deduped) :
      i < j => deduped[i][NaturalKey(entity)] # deduped[j][NaturalKey(entity)]

\* The numeric columns that imputation applies to.
ImputedColumns(e) ==
  CASE e = "customers" -> {"MemberPoints"}
    [] e = "products" -> {"UnitPrice"}
    [] OTHER -> {"SaleAmount", "Quantity"}

\* The number a raw cell of the column parses to, NA when it does not parse.
Parsed(col, c) == IF col = "SaleAmount" THEN to_numeric(strip_currency(c)) ELSE to_numeric(c)

\* The column col of `rows` is the column of `before` with every value that
\* parsed kept and every other value set to the median of those that parsed
\* (and left missing when none parsed).
ImputedFrom(rows, before, col) ==
  LET parsed == MapCol(before, col, LAMBDA c : Parsed(col, c))
      vals == Values(parsed, col, 1)
  IN \A i \in 1..Len(before) :
       rows[i][col] = IF IsNA(parsed[i][col]) /\ vals # <<>>
                        THEN <<"num", median(vals)>>
                        ELSE parsed[i][col]

\* C10: after handle_missing_values, every numeric column that imputation
\* applies to (MemberPoints, UnitPrice, SaleAmount, Quantity) holds the parsed
\* values unchanged and, in place of each missing or unparsable value, the
\* median of the values that parsed among the rows that survived
\* de-duplication; a value stays missing only when no value of the column parsed.
C10_MedianImputation ==
  step = "imputed" =>
    /\ ~df.isNone
    /\ Len(df.rows) = Len(deduped)
    /\ \A col \in ImputedColumns(entity) \cap Columns(deduped) :
         ImputedFrom(df.rows, deduped, col)

\* -------------------------------------------------- the stages' claims
Returned(f, e) == fn = f /\ called /\ arg.e = e

RECURSIVE Sum(_)
Sum(s) == IF s = <<>> THEN 0 ELSE Head(s) + Sum(Tail(s))

\* The rows of `rows` whose column col lies within two sample standard
\* deviations of the column's mean, in order; every row when fewer than two
\* values are present or all values are equal.  With n values of sum t,
\* x is within the bounds when (n - 1) * (n * x - t)^2 <= 4 * sum (n * xi - t)^2.
ZScoreKept(rows, col) ==
  LET vals == Values(MapCol(rows, col, to_numeric), col, 1)
      n == Len(vals)
      t == Sum(vals)
      ss == Sum([i \in 1..n |-> (n * vals[i] - t) * (n * vals[i] - t)])
      Within(c) == ~IsNA(c) /\ (n - 1) * (n * c[2] - t) * (n * c[2] - t) <= 4 * ss
  IN IF n < 2 \/ ss = 0 THEN rows
     ELSE Filter(rows, [i \in 1..Len(rows) |-> Within(to_numeric(rows[i][col]))], 1)

\* The rows that hold a number in column col, in order.
Present(rows, col) ==
  Filter(rows, [i \in 1..Len(rows) |-> ~IsNA(to_numeric(rows[i][col]))], 1)

\* C11: remove_outliers of the customer pipeline returns its input when the
\* standard deviation of MemberPoints is zero or undefined, and otherwise, of
\* the rows that hold a MemberPoints value, exactly those whose value lies in
\* [mean - 2 sd, mean + 2 sd], in input order.
C11_ZScoreRejection ==
  Returned("remove_outliers", "customers") =>
    /\ ~ret.isNone
    /\ Present(ret.rows, "MemberPoints")
         = Present(ZScoreKept(arg.rows, "MemberPoints"), "MemberPoints")

Candidates(e) == IF e = "products" THEN ProductCandidates ELSE SalesCandidates

\* The numbers of column col, sorted.
Sorted(rows, col) == Sort(Values(MapCol(rows, col, to_numeric), col, 1))

\* Column col has no value, or its first and third quartile are equal.
Flat(rows, col) ==
  Sorted(rows, col) = <<>> \/ quantile(Sorted(rows, col), 1) = quantile(Sorted(rows, col), 3)

\* Cell c lies in [Q1 - 1.5 IQR, Q3 + 1.5 IQR] of column col of `rows`
\* (both sides multiplied by 8).
InsideBounds(rows, col, c) ==
  LET q1 == quantile(Sorted(rows, col), 1)
      q3 == quantile(Sorted(rows, col), 3)
      v == to_numeric(c)
  IN /\ ~IsNA(v)
     /\ 2 * q1 - 3 * (q3 - q1) <= 8 * v[2]
     /\ 8 * v[2] <= 2 * q3 + 3 * (q3 - q1)

\* The rows that survive the candidate columns cols, taken one after the
\* other, each column's bounds computed on the survivors of the columns
\* before it; a flat column removes nothing.
RECURSIVE Narrowed(_, _)
Narrowed(rows, cols) ==
  IF cols = <<>> THEN rows
  ELSE LET col == Head(cols)
           kept == IF col \notin Columns(rows) THEN rows
                   ELSE IF Flat(rows, col) THEN MapCol(rows, col, to_numeric)
                   ELSE Filter(MapCol(rows, col, to_numeric),
                               [i \in 1..Len(rows) |-> InsideBounds(rows, col, rows[i][col])],
                               1)
       IN Narrowed(kept, Tail(cols))

\* C12: in the IQR outlier rejection of products and sales, a candidate column
\* whose Q1 equals Q3, or that has no value, removes no row: the rows that
\* leave that column's pass are the rows that entered it.
C12_FlatColumnRemovesNothing ==
  (fn = "remove_outliers" /\ called /\ arg.e \in {"products", "sales"}) =>
    \A k \in 1..Len(Candidates(arg.e)) :
      LET col == Candidates(arg.e)[k]
          entering == Narrowed(arg.rows, SubSeq(Candidates(arg.e), 1, k - 1))
      IN (col \in Columns(entering) /\ Flat(entering, col)) =>
           /\ iqr_column(entering, col) = MapCol(entering, col, to_numeric)
           /\ Len(ret.rows) <= Len(entering)
           /\ (\A j \in (k + 1)..Len(Candidates(arg.e)) :
                  Candidates(arg.e)[j] \notin Columns(entering)) =>
                ret.rows = MapCol(entering, col, to_numeric)

C12_Witness ==
  /\ fn = "remove_outliers" /\ called /\ arg.e = "products"
  /\ Columns(arg.rows) = {"Price"}
  /\ Len(arg.rows) = 5 /\ Len(ret.rows) = 5
  /\ Flat(arg.rows, "Price")
  /\ \E i, j \in 1..5 : arg.rows[i].Price = Num(0) /\ arg.rows[j].Price = Num(9)

Constrained(e) == IF e = "products" THEN {"UnitPrice", "Price"} ELSE {"SaleAmount", "Quantity"}

Negative(c) == to_numeric(c)[1] = "num" /\ to_numeric(c)[2] < 0

\* C14: after validate_data no surviving row holds a negative value in a
\* column with a non-negativity rule (product UnitPrice and Price, sales
\* SaleAmount and Quantity).
C14_NoNegativeSurvives ==
  (fn = "validate_data" /\ called) =>
    /\ ~ret.isNone
    /\ \A i \in 1..Len(ret.rows) :
         \A col \in Constrained(arg.e) \cap Columns(ret.rows) : ~Negative(ret.rows[i][col])

C14_Witness ==
  /\ fn = "validate_data" /\ called /\ arg.e = "sales"
  /\ Len(arg.rows) = 3 /\ Len(ret.rows) = 1
  /\ Negative(arg.rows[1].SaleAmount) /\ ~Negative(arg.rows[1].Quantity)
  /\ Negative(arg.rows[2].Quantity) /\ ~Negative(arg.rows[2].SaleAmount)

\* The monetary and percentage columns that finalize_presentation renders.
Rendered(e) == IF e = "products" THEN {"UnitPrice"} ELSE Range(MoneyColumns)

StageOrder ==
  <<"remove_duplicates", "handle_missing_values", "standardize_formats",
    "remove_outliers", "validate_data", "finalize_presentation">>

\* The monetary and percentage fields.
MonetaryFields == {"UnitPrice", "Price", "SaleAmount", "PercentDiscount", "SaleFinal"}

\* Some monetary field of the row-set is display text.
HoldsText(rows) ==
  \E i \in 1..Len(rows) : \E c \in MonetaryFields \cap DOMAIN rows[i] : rows[i][c][1] = "text"

\* C16: for every entity, main calls the six stages in the order
\* de-duplication, imputation, standardization, outlier rejection, validation,
\* finalization, each once, writes the prepared file only after finalization,
\* and no field is display text before finalization.
C16_StagesInFixedOrder ==
  applied # <<>> =>
    /\ main(entity) = StageOrder \o <<"save_prepared_data">>
    /\ IsPrefix(applied, StageOrder \o <<"save_prepared_data">>)
    /\ prepared.written => applied = StageOrder \o <<"save_prepared_data">>
    /\ "finalize_presentation" \notin Range(applied) => ~HoldsText(df.rows)

\* C19: when the raw read fails (missing file, any other read error) or the
\* file holds no row, read_raw_data returns an empty row-set instead of
\* raising, main returns before its first stage, save_prepared_data is never
\* called and the prepared file is left as it was.
C19_EmptyReadStopsPipeline ==
  (source.error # "none" \/ source.rows = <<>>) =>
    /\ read_raw_data(source) = <<>>
    /\ raw = <<>>
    /\ step \in {"read", "returned"}
    /\ applied = <<>>
    /\ prepared = [written |-> FALSE, rows |-> <<>>]

\* main has returned after a read that failed.
C19_Witness ==
  /\ step = "returned"
  /\ source.error = "FileNotFoundError"
  /\ applied = <<>>
  /\ ~prepared.written

\* ------------------------------------------- imputation's text claims
\* The texts that stand for "no value", in lower case.
Placeholders == {<<"n", "a", "n">>, <<"n", "o", "n", "e">>, <<"n", "/", "a">>}

\* A real value: neither missing, nor empty or blank, nor a placeholder.
RealValue(c) == IsStr(c) /\ ~IsBlank(c[2]) /\ lower(c[2]) \notin Placeholders

\* The real values of a column, in order.
RealValues(rows, col) ==
  LET Keep(c) == IF RealValue(c) THEN c ELSE NA
  IN Strings(MapCol(rows, col, Keep), col, 1)

\* The most frequent values of vals.
Modes(vals) == {v \in Range(vals) : \A w \in Range(vals) : Count(w, vals) <= Count(v, vals)}

\* C17: after the customer imputation, when the preferred-contact column
\* holds a real value, every cell of the column is a real value: a cell that
\* was missing, empty, blank or a placeholder ("nan", "none", "n/a" in any
\* case) holds a most frequent real value, placeholders not counted, and a
\* real value is left as it was.
C17_PreferredContactFilled ==
  (/\ Returned("handle_missing_values", "customers")
   /\ col_pc(arg.columns) # NotFound
   /\ RealValues(arg.rows, col_pc(arg.columns)) # <<>>) =>
    LET col == col_pc(arg.columns)
        real == RealValues(arg.rows, col)
    IN /\ Len(ret.rows) = Len(arg.rows)
       /\ \A i \in 1..Len(arg.rows) :
            IF RealValue(arg.rows[i][col])
              THEN ret.rows[i][col] = arg.rows[i][col]
              ELSE IsStr(ret.rows[i][col]) /\ ret.rows[i][col][2] \in Modes(real)

\* C18: after the sales imputation, a PaidWithPoints that was missing or
\* blank is "No", and every other one is its input with the surrounding
\* whitespace removed.
C18_PaidWithPointsDefault ==
  (Returned("handle_missing_values", "sales") /\ "PaidWithPoints" \in Columns(arg.rows)) =>
    /\ Len(ret.rows) = Len(arg.rows)
    /\ \A i \in 1..Len(arg.rows) :
         LET c == arg.rows[i].PaidWithPoints
         IN ret.rows[i].PaidWithPoints =
              IF IsNA(c) \/ IsBlank(c[2]) THEN Str(<<"N", "o">>) ELSE Str(strip(c[2]))

\* sub occurs in s.
Contains(sub, s) ==
  \E k \in 0..(Len(s) - Len(sub)) : SubSeq(s, k + 1, k + Len(sub)) = sub

\* A header that names the preferred contact by its keywords.
Qualifies(name) == Contains(<<"p", "r", "e", "f", "e", "r", "r", "e", "d">>, lower(name)) /\ Contains(<<"c", "o", "n", "t", "a", "c", "t">>, lower(name))

\* The column the resolution the specification describes arrives at.
Resolved(columns) ==
  IF Preferred_Contact \in Range(columns) THEN Preferred_Contact
  ELSE IF Preferred_Contact_spaced \in Range(columns) THEN Preferred_Contact_spaced
  ELSE IF \E i \in 1..Len(columns) : Qualifies(columns[i])
    THEN columns[CHOOSE i \in 1..Len(columns) :
                   Qualifies(columns[i]) /\ \A j \in 1..(i - 1) : ~Qualifies(columns[j])]
  ELSE NotFound

\* C20: the column the customer imputation takes for the preferred contact is
\* "Preferred_Contact" when present, else "Preferred Contact" when present,
\* else the first column whose lower-cased name contains "preferred" and
\* "contact", and none only when no column qualifies.
C20_ResolverFallsBackToKeywords ==
  Returned("handle_missing_values", "customers") =>
    col_pc(arg.columns) = Resolved(arg.columns)

\* ------------------------------------------------ validation's frame
\* The rows none of whose constrained fields is negative, in order, their
\* constrained fields coerced to numbers.
WithoutNegatives(e, rows) ==
  LET cols == Constrained(e) \cap Columns(rows)
      kept == Filter(rows,
                     [i \in 1..Len(rows) |-> \A col \in cols : ~Negative(rows[i][col])], 1)
  IN [i \in 1..Len(kept) |->
        [c \in DOMAIN kept[i] |-> IF c \in cols THEN to_numeric(kept[i][c]) ELSE kept[i][c]]]

\* C21: validate_data removes a row only when one of its constrained fields
\* is negative: a row whose constrained fields are missing or not a number,
\* and none negative, survives, so a product row-set whose UnitPrice is
\* missing throughout is not emptied.
C21_ValidationKeepsMissing ==
  (fn = "validate_data" /\ called) => ret.rows = WithoutNegatives(arg.e, arg.rows)

\* C22: for every sales row-set with a Quantity column, handle_missing_values
\* completes without raising and leaves every Quantity a whole number (or
\* missing, when the column holds no number at all), also when the median of
\* the quantities present is not whole.
C22_QuantityImputationCompletes ==
  (/\ entity = "sales"
   /\ applied = <<"remove_duplicates", "handle_missing_values">>
   /\ "Quantity" \in Columns(deduped)) =>
    /\ step = "imputed"
    /\ \A i \in 1..Len(df.rows) :
         IsNA(df.rows[i].Quantity) \/ df.rows[i].Quantity[2] % Unit = 0

\* ------------------------------------------------------ DataScrubber
\* The scrubber's frame self.df is [columns, rows]: the column labels in
\* order, and the rows as records over them.  A method returns
\* [df, raised]: self.df when the call ends, and the exception it ends with.
Completes(frame) == [df |-> frame, raised |-> "none"]
RaisesValueError(frame) == [df |-> frame, raised |-> "ValueError"]

\* DataFrame.drop_duplicates(subset=None, keep=keep)
drop_duplicates_whole_rows(rows, keep) ==
  LET Kept(i) ==
        CASE keep = "first" -> \A j \in 1..(i - 1) : rows[j] # rows[i]
          [] keep = "last" -> \A j \in (i + 1)..Len(rows) : rows[j] # rows[i]
          [] OTHER -> \A j \in 1..Len(rows) : j # i => rows[j] # rows[i]
  IN Filter(rows, [i \in 1..Len(rows) |-> Kept(i)], 1)

\* DataScrubber.remove_duplicates(subset=None, keep)
DataScrubber_remove_duplicates(frame, keep) ==
  IF keep \notin {"first", "last", "False"}
    THEN RaisesValueError(frame)
    ELSE Completes([frame EXCEPT !.rows = drop_duplicates_whole_rows(frame.rows, keep)])

\* DataScrubber.filter_column_outliers(column, lower_bound, upper_bound) on a
\* column of numbers: a comparison with NaN is false.
DataScrubber_filter_column_outliers(frame, column, lower_bound, upper_bound) ==
  IF column \notin Range(frame.columns)
    THEN RaisesValueError(frame)
    ELSE LET Within(c) == ~IsNA(c) /\ c[2] >= Unit * lower_bound /\ c[2] <= Unit * upper_bound
         IN Completes([frame EXCEPT
                         !.rows = Filter(frame.rows,
                                         [i \in 1..Len(frame.rows) |->
                                            Within(frame.rows[i][column])], 1)])

IsLetter(ch) ==
  \E k \in 1..Len(Uppercase) : Uppercase[k] = ch \/ Lowercase[k] = ch

\* str.upper()
upper(s) ==
  [i \in 1..Len(s) |->
     IF \E k \in 1..Len(Lowercase) : Lowercase[k] = s[i]
       THEN Uppercase[CHOOSE k \in 1..Len(Lowercase) : Lowercase[k] = s[i]]
       ELSE s[i]]

\* str.title(): a letter that follows no letter is upper-cased, any other
\* letter lower-cased.
title(s) ==
  [i \in 1..Len(s) |->
     IF i = 1 \/ ~IsLetter(s[i - 1]) THEN upper(<<s[i]>>)[1] ELSE lower(<<s[i]>>)[1]]

\* standardize_strings: what one pass of the loop makes of a cell.
standardize_string(c, case, trim) ==
  IF ~IsStr(c) THEN c
  ELSE LET t == IF trim THEN strip(c[2]) ELSE c[2]
       IN Str(CASE case = "lower" -> lower(t)
                [] case = "upper" -> upper(t)
                [] case = "title" -> title(t)
                [] OTHER -> t)

\* DataScrubber.standardize_strings(columns, case, trim): the loop checks and
\* rewrites one column after the other.
RECURSIVE DataScrubber_standardize_strings(_, _, _, _)
DataScrubber_standardize_strings(frame, columns, case, trim) ==
  IF columns = <<>> THEN Completes(frame)
  ELSE IF Head(columns) \notin Range(frame.columns) THEN RaisesValueError(frame)
  ELSE LET Standardize(c) == standardize_string(c, case, trim)
       IN DataScrubber_standardize_strings(
            [frame EXCEPT !.rows = MapCol(frame.rows, Head(columns), Standardize)],
            Tail(columns), case, trim)

Digits == {"0", "1", "2", "3", "4", "5", "6", "7", "8", "9"}

\* The text is a date written year-month-day.
IsIsoDate(s) ==
  /\ Len(s) = 10
  /\ \A i \in {1, 2, 3, 4, 6, 7, 9, 10} : s[i] \in Digits
  /\ s[5] = "-" /\ s[8] = "-"

\* parse_dates: astype("string").str.strip().replace({"": None}), then
\* to_datetime(errors="coerce"): a date is <<"date", text>>, anything else NaT.
parse_date(c) ==
  IF c[1] \notin {"str", "date"} THEN NA
  ELSE LET t == strip(c[2])
       IN IF IsIsoDate(t) THEN <<"date", t>> ELSE NA

\* DataScrubber.parse_dates(columns): the loop checks and rewrites one column
\* after the other.
RECURSIVE DataScrubber_parse_dates(_, _)
DataScrubber_parse_dates(frame, columns) ==
  IF columns = <<>> THEN Completes(frame)
  ELSE IF Head(columns) \notin Range(frame.columns) THEN RaisesValueError(frame)
  ELSE DataScrubber_parse_dates(
         [frame EXCEPT !.rows = MapCol(frame.rows, Head(columns), parse_date)],
         Tail(columns))

\* Series.astype(int) on a column of numbers: the fraction is cut off, and a
\* NaN raises IntCastingNaNError, a ValueError; on a column of text that is no
\* number it raises ValueError.
astype_int(c) == <<"num", c[2] - (IF c[2] >= 0 THEN c[2] % Unit ELSE -((-c[2]) % Unit))>>

\* DataScrubber.convert_column_to_new_data_type(column, int)
DataScrubber_convert_column_to_new_data_type(frame, column) ==
  IF column \notin Range(frame.columns) THEN RaisesValueError(frame)
  ELSE IF \E i \in 1..Len(frame.rows) : frame.rows[i][column][1] # "num"
    THEN RaisesValueError(frame)
  ELSE Completes([frame EXCEPT !.rows = MapCol(frame.rows, column, astype_int)])

\* The frame cut down to, and ordered by, the labels of order.
Loc(frame, order) ==
  [columns |-> order,
   rows |-> [i \in 1..Len(frame.rows) |-> [c \in Range(order) |-> frame.rows[i][c]]]]

\* The labels of columns that are not among labels, in order.
RECURSIVE Without(_, _)
Without(columns, labels) ==
  IF columns = <<>> THEN <<>>
  ELSE (IF Head(columns) \in labels THEN <<>> ELSE <<Head(columns)>>)
         \o Without(Tail(columns), labels)

\* DataScrubber.reorder_columns(order, drop_extras)
DataScrubber_reorder_columns(frame, order, drop_extras) ==
  IF \E i \in 1..Len(order) : order[i] \notin Range(frame.columns)
    THEN RaisesValueError(frame)
    ELSE Completes(Loc(frame,
                       IF drop_extras THEN order
                       ELSE order \o Without(frame.columns, Range(order))))

\* DataScrubber.drop_columns(columns)
DataScrubber_drop_columns(frame, columns) ==
  IF \E i \in 1..Len(columns) : columns[i] \notin Range(frame.columns)
    THEN RaisesValueError(frame)
    ELSE Completes(Loc(frame, Without(frame.columns, Range(columns))))

\* The frames a scrubber is built on: a name, a join date and a number of
\* points per row.
ScrubColumns == <<"Name", "Joined", "Points">>
ScrubRows ==
  [Name : {Str(<<" ", "A", "n", "n">>), Str(<<"b", "o", "b">>)},
   Joined : {Str(<<"2", "0", "2", "4", "-", "0", "1", "-", "0", "2", " ">>), Str(<<"x">>)},
   Points : {NA, <<"num", 1500>>, Num(9)}]
ScrubFrames == {[columns |-> ScrubColumns, rows |-> r] : r \in SeqsUpTo(ScrubRows, MaxRows)}

\* The labels a caller passes: two that exist and one that does not.
Labels == {"Name", "Joined", "Ghost"}
LabelLists == SeqsUpTo(Labels, MaxRows)
DistinctLabelLists == {l \in LabelLists : \A i, j \in 1..Len(l) : i # j => l[i] # l[j]}

ScrubFunctions ==
  {"remove_duplicates", "filter_column_outliers", "standardize_strings", "parse_dates",
   "convert_column_to_new_data_type", "reorder_columns", "drop_columns"}

ScrubArguments(f) ==
  CASE f = "remove_duplicates" ->
         {[df |-> d, keep |-> k] : d \in ScrubFrames, k \in {"first", "last", "False", "all"}}
    [] f = "filter_column_outliers" ->
         {[df |-> d, column |-> c, lower_bound |-> 0, upper_bound |-> b] :
            d \in ScrubFrames, c \in {"Points", "Ghost"}, b \in {2, 9}}
    [] f = "standardize_strings" ->
         {[df |-> d, columns |-> l, case |-> c, trim |-> t] :
            d \in ScrubFrames, l \in LabelLists,
            c \in {"lower", "upper", "title", "keep"}, t \in BOOLEAN}
    [] f = "parse_dates" -> {[df |-> d, columns |-> l] : d \in ScrubFrames, l \in LabelLists}
    [] f = "convert_column_to_new_data_type" ->
         {[df |-> d, column |-> c] : d \in ScrubFrames, c \in {"Name", "Points", "Ghost"}}
    [] f = "reorder_columns" ->
         {[df |-> d, order |-> l, drop_extras |-> x] :
            d \in ScrubFrames, l \in DistinctLabelLists, x \in BOOLEAN}
    [] OTHER -> {[df |-> d, columns |-> l] : d \in ScrubFrames, l \in DistinctLabelLists}

\* A scrubber has been built on arg.df and one of its methods is about to be
\* called.
ScrubInit ==
  /\ loader = "etl"
  /\ pc = 0
  /\ prog = <<>>
  /\ disk = [t \in AllTables |-> NoTable]
  /\ view = [t \in AllTables |-> NoTable]
  /\ intxn = FALSE
  /\ customers_df = UNREAD
  /\ products_df = UNREAD
  /\ sales_df = UNREAD
  /\ prior = [t \in AllTables |-> NoTable]
  /\ outcome = "none"
  /\ log = <<>>
  /\ entity = "none"
  /\ step = "none"
  /\ raw = <<>>
  /\ deduped = <<>>
  /\ df = [isNone |-> FALSE, rows |-> <<>>]
  /\ removed = -1
  /\ source = [error |-> "none", rows |-> <<>>]
  /\ applied = <<>>
  /\ prepared = [written |-> FALSE, rows |-> <<>>]
  /\ fn \in ScrubFunctions
  /\ arg \in ScrubArguments(fn)
  /\ ret = <<>>
  /\ called = FALSE

ScrubRemoveDuplicates ==
  Returns("remove_duplicates", DataScrubber_remove_duplicates(arg.df, arg.keep))

ScrubFilterColumnOutliers ==
  Returns("filter_column_outliers",
          DataScrubber_filter_column_outliers(arg.df, arg.column, arg.lower_bound,
                                              arg.upper_bound))

ScrubStandardizeStrings ==
  Returns("standardize_strings",
          DataScrubber_standardize_strings(arg.df, arg.columns, arg.case, arg.trim))

ScrubParseDates == Returns("parse_dates", DataScrubber_parse_dates(arg.df, arg.columns))

ScrubConvertColumn ==
  Returns("convert_column_to_new_data_type",
          DataScrubber_convert_column_to_new_data_type(arg.df, arg.column))

ScrubReorderColumns ==
  Returns("reorder_columns",
          DataScrubber_reorder_columns(arg.df, arg.order, arg.drop_extras))

ScrubDropColumns == Returns("drop_columns", DataScrubber_drop_columns(arg.df, arg.columns))

ScrubNext ==
  \/ ScrubRemoveDuplicates
  \/ ScrubFilterColumnOutliers
  \/ ScrubStandardizeStrings
  \/ ScrubParseDates
  \/ ScrubConvertColumn
  \/ ScrubReorderColumns
  \/ ScrubDropColumns

ScrubSpec == ScrubInit /\ [][ScrubNext]_vars

\* C23: a DataScrubber method that ends with ValueError leaves the scrubber's
\* frame exactly as it was before the call, also when an earlier column of
\* its argument exists and a later one does not.
C23_ValueErrorLeavesFrame ==
  (called /\ ret.raised = "ValueError") => ret.df = arg.df

\* ------------------------------------------------ the name's claims
\* The name opens with an honorific token followed by whitespace.
OpensWithHonorific(name) ==
  LET s == strip(name)
  IN \E word \in PREFIXES :
       \/ StartsWith(s, word) /\ Len(s) > Len(word) /\ s[Len(word) + 1] \in Whitespace
       \/ StartsWith(s, word \o <<".">>) /\ Len(s) > Len(word) + 1
            /\ s[Len(word) + 2] \in Whitespace

\* The last whitespace- or comma-separated token of the name.
LastToken(name) ==
  LET s == strip(name)
      cuts == {k \in 1..Len(s) : s[k] \in Whitespace \cup {","}}
      last == IF cuts = {} THEN 0 ELSE CHOOSE k \in cuts : \A j \in cuts : j <= k
  IN SubSeq(s, last + 1, Len(s))

IsCredential(token) ==
  lower(token) \in SUFFIXES \cup {word \o <<".">> : word \in SUFFIXES}

\* C24: _clean_name returns a name that opens with no honorific token and
\* whose last token is no credential unchanged apart from trimming and
\* collapsing whitespace (a last token that only ends with the letters of a
\* credential, as "Liv" or "Torii", is not shortened), and _clean_name of its
\* result is that result.
C24_CleanNameWholeTokens ==
  (fn = "_clean_name" /\ called) =>
    /\ (~OpensWithHonorific(arg.name) /\ ~IsCredential(LastToken(arg.name)))
         => ret = strip(collapse(strip(arg.name)))
    /\ clean_name(ret) = ret

\* ------------------------------------------------ the declared schemas
\* The column each create_schema declares as primary key of each table
\* ("fact" is fact_sales in etl_to_dw.py and sale in db01_setup.py).
DeclaredPrimaryKey(l) ==
  IF l = "etl"
    THEN [customer |-> "CustomerID", product |-> "ProductID", store |-> "StoreID",
          date |-> "DateID", fact |-> "TransactionID"]
    ELSE [customer |-> "customer_key", product |-> "product_key", fact |-> "sale_id"]

\* The FOREIGN KEY clauses of the fact table: FOREIGN KEY (column) REFERENCES
\* table (references).
DeclaredForeignKeys(l) ==
  IF l = "etl"
    THEN {[column |-> "CustomerID", table |-> "customer", references |-> "CustomerID"],
          [column |-> "ProductID", table |-> "product", references |-> "ProductID"],
          [column |-> "StoreID", table |-> "store", references |-> "StoreID"],
          [column |-> "DateID", table |-> "date", references |-> "DateID"]}
    ELSE {[column |-> "customer_id", table |-> "customer", references |-> "customer_id"],
          [column |-> "product_id", table |-> "product", references |-> "product_id"]}

\* C25: once create_schema has declared the fact table, each of its foreign
\* keys names a table that the same create_schema declares and the column
\* declared as that table's primary key.
C25_ForeignKeysNamePrimaryKeys ==
  view["fact"].exists =>
    \A fk \in DeclaredForeignKeys(loader) :
      /\ fk.table \in Range(create_schema(loader))
      /\ fk.references = DeclaredPrimaryKey(loader)[fk.table]

====
